---- MODULE Spec2Model ----
(***************************************************************************)
(* A model of relearn (src/src/relearn.hpp): the policy store              *)
(* (class policy), the deterministic learner (q_learning) and the          *)
(* probabilistic learner (q_probabilistic).                                *)
(*                                                                         *)
(* value_type is double.  A value is modelled as an exact fraction         *)
(* <<numerator, denominator>> in lowest terms with a positive denominator; *)
(* quiet_NaN is the pair <<0, 0>>.  Rounding of doubles is not modelled.   *)
(*                                                                         *)
(* A std::unordered_map is modelled by its iteration order: the inner map  *)
(* action -> value is a sequence of [action, value] records, and inserting *)
(* a new key may place it anywhere in that order (the order is             *)
(* implementation-defined), keeping the relative order of the others.      *)
(* The outer map state -> inner map is a set of [state, acts] records; the *)
(* key is the state object first inserted (its reward included), found by  *)
(* hasher<state> and state::operator==.                                    *)
(***************************************************************************)
EXTENDS Integers, Sequences, FiniteSets, TLC

VARIABLES
    memory,   \* the policy store the driver owns (lhs of operator+=)
    rhs,      \* a second policy store (the argument of operator+=)
    updated,  \* history: per store, the last value passed to update per pair
    last,     \* the driver's last step: the call, its arguments, what it returned
    ops,      \* number of calls the driver made on memory
    rops,     \* number of calls the driver made on rhs
    calls,    \* number of learner calls made by the driver
    pc,       \* "idle", or the loop a learner call is in
    episode,  \* the markov_chain of the running learner call
    index,    \* the loop variable i of the running learner call
    alpha,    \* q_learning::alpha
    gamma,    \* q_learning::gamma / q_probabilistic::gamma
    locals,   \* the local variables of the last q_value call
    freq,     \* q_probabilistic::__memory__
    pre       \* history: memory and freq when the last learner call or merge started

vars == <<memory, rhs, updated, last, ops, rops, calls,
          pc, episode, index, alpha, gamma, locals, freq, pre>>

learnerVars == <<pc, episode, index, alpha, gamma, locals, freq, pre>>

----------------------------------------------------------------------------
(* Bounds of the model *)

MaxOps    == 3
MaxRhsOps == 2
MaxSetup  == 1
MaxLen    == 2
MaxCalls  == 2

Traits  == {1, 2}
Actions == {1, 2}

----------------------------------------------------------------------------
(* value_type = double, as exact fractions *)

NaN  == <<0, 0>>
Zero == <<0, 1>>
One  == <<1, 1>>

IsNaN(x) == x[2] = 0

Abs(n) == IF n < 0 THEN -n ELSE n

RECURSIVE Gcd(_, _)
Gcd(a, b) == IF b = 0 THEN a ELSE Gcd(b, a % b)

Norm(n, d) ==
    LET g == Gcd(Abs(n), d)
    IN  <<n \div g, d \div g>>

Num(n) == <<n, 1>>

Add(x, y) ==
    IF IsNaN(x) \/ IsNaN(y) THEN NaN
    ELSE Norm(x[1] * y[2] + y[1] * x[2], x[2] * y[2])

Sub(x, y) ==
    IF IsNaN(x) \/ IsNaN(y) THEN NaN
    ELSE Norm(x[1] * y[2] - y[1] * x[2], x[2] * y[2])

Mul(x, y) ==
    IF IsNaN(x) \/ IsNaN(y) THEN NaN
    ELSE Norm(x[1] * y[1], x[2] * y[2])

Less(x, y) ==
    /\ ~IsNaN(x)
    /\ ~IsNaN(y)
    /\ x[1] * y[2] < y[1] * x[2]

Geq(x, y) ==
    /\ ~IsNaN(x)
    /\ ~IsNaN(y)
    /\ x[1] * y[2] >= y[1] * x[2]

----------------------------------------------------------------------------
(* state, action, link *)

Rewards == {Num(0), Num(1)}
Values  == {Num(-2), Num(-1), Num(0), Num(1)}

State(reward, trait) == [trait |-> trait, reward |-> reward]

States == {State(r, t) : r \in Rewards, t \in Traits}

\* the states the driver passes to the store: state(trait), state(1, trait)
Keys == States

\* state(trait): constructed without a reward
DefaultStates == {State(Zero, t) : t \in Traits}

\* the values of tests/class_test.cpp
MergeValues == {Num(0), Num(1)}

\* the values the driver writes before it trains the store
SetupValues == {Num(-1)}

StateEqMut(x, y) == x = y

\* state::operator== and state::hash: the trait alone
StateEq(x, y) == x.trait = y.trait

ActionEq(x, y) == x = y

\* state::operator<
StateLess(x, y) == x.trait < y.trait

\* action::operator<
ActionLess(x, y) == x < y

Link(s, a) == [state |-> s, action |-> a]

Links == {Link(s, a) : s \in States, a \in Actions}

\* link::operator<
LinkLess(x, y) == ActionLess(x.action, y.action) /\ StateLess(x.state, y.state)

\* link::operator==
LinkEq(x, y) == ActionEq(x.action, y.action) /\ StateEq(x.state, y.state)

nullptr == 0

----------------------------------------------------------------------------
(* std::unordered_map *)

InsertAt(m, pos, x) ==
    [k \in 1..(Len(m) + 1) |->
        IF k < pos THEN m[k] ELSE IF k = pos THEN x ELSE m[k - 1]]

HasState(P, s) == \E e \in P : StateEq(e.state, s)

Entry(P, s) == CHOOSE e \in P : StateEq(e.state, s)

\* __policies__[s_t]: the inner map of s_t, a new empty one when absent
IndexState(P, s) ==
    IF HasState(P, s) THEN P ELSE P \cup {[state |-> s, acts |-> <<>>]}

Inner(P, s) == IF HasState(P, s) THEN Entry(P, s).acts ELSE <<>>

HasAction(m, a) == \E k \in 1..Len(m) : ActionEq(m[k].action, a)

Pos(m, a) == CHOOSE k \in 1..Len(m) : ActionEq(m[k].action, a)

\* inner[a_t]: a value-initialised entry (0) is inserted when a_t is absent
IndexAction(m, a) ==
    IF HasAction(m, a) THEN {m}
    ELSE {InsertAt(m, pos, [action |-> a, value |-> Zero]) :
              pos \in 1..(Len(m) + 1)}

SetInner(P, s, m) ==
    {IF StateEq(e.state, s) THEN [e EXCEPT !.acts = m] ELSE e : e \in P}

\* __policies__[s_t][a_t]: every store the double subscript can leave behind
Subscript(P, s, a) ==
    LET P1 == IndexState(P, s)
    IN  {SetInner(P1, s, m) : m \in IndexAction(Inner(P1, s), a)}

Get(P, s, a) == LET m == Inner(P, s) IN m[Pos(m, a)].value

Assign(P, s, a, q) ==
    LET m == Inner(P, s)
    IN  SetInner(P, s, [m EXCEPT ![Pos(m, a)].value = q])

\* the map as a set of (action, value) pairs, whatever its iteration order
AsMap(m) == {<<m[k].action, m[k].value>> : k \in 1..Len(m)}

----------------------------------------------------------------------------
(* class policy *)

\* actions(s_t): returns the inner map
ActionsResult(P, s) == AsMap(Inner(IndexState(P, s), s))

UpdateResultsMut(P, s, a, q) ==
    IF HasAction(Inner(P, s), a) THEN {P}
    ELSE {Assign(P1, s, a, q) : P1 \in Subscript(P, s, a)}

UpdateResultsClear(P, s, a, q) ==
    {SetInner(IndexState(P, s), s, <<[action |-> a, value |-> q]>>)}

\* update(s_t, a_t, q): __policies__[s_t][a_t] = q
UpdateResults(P, s, a, q) == {Assign(P1, s, a, q) : P1 \in Subscript(P, s, a)}

\* value(s_t, a_t): return __policies__[s_t][a_t]
ValueResults(P, s, a) ==
    {[store |-> P1, ret |-> Get(P1, s, a)] : P1 \in Subscript(P, s, a)}

RECURSIVE MaxFromMut(_, _, _)
MaxFromMut(m, largest, it) ==
    IF it > Len(m) THEN largest
    ELSE MaxFromMut(m, IF Less(m[it].value, m[largest].value)
                       THEN it ELSE largest, it + 1)

\* std::max_element with comp(lhs, rhs) = lhs.second < rhs.second
RECURSIVE MaxFrom(_, _, _)
MaxFrom(m, largest, it) ==
    IF it > Len(m) THEN largest
    ELSE MaxFrom(m, IF Less(m[largest].value, m[it].value)
                    THEN it ELSE largest, it + 1)

\* 0 stands for the end iterator
MaxElement(m) == IF m = <<>> THEN 0 ELSE MaxFrom(m, 1, 2)

BestValue(P, s) ==
    LET m  == Inner(IndexState(P, s), s)
        it == MaxElement(m)
    IN  IF it # 0 THEN m[it].value ELSE NaN

BestAction(P, s) ==
    LET m  == Inner(IndexState(P, s), s)
        it == MaxElement(m)
    IN  IF it # 0 THEN m[it].action ELSE nullptr

BestMut(P, s) ==
    LET m  == Inner(IndexState(P, s), s)
        it == IF m = <<>> THEN 0
              ELSE CHOOSE k \in 1..Len(m) :
                      /\ \A j \in 1..Len(m) : ~Less(m[k].value, m[j].value)
                      /\ \A j \in (k + 1)..Len(m) : Less(m[j].value, m[k].value)
    IN  IF it # 0 THEN <<m[it].action, m[it].value>> ELSE <<nullptr, NaN>>

Best(P, s) ==
    LET m  == Inner(IndexState(P, s), s)
        it == MaxElement(m)
    IN  IF it # 0 THEN <<m[it].action, m[it].value>> ELSE <<nullptr, NaN>>

\* every (state, action, value) triple of a store
Triples(P) ==
    UNION {{[state |-> e.state, action |-> e.acts[k].action,
             value |-> e.acts[k].value] : k \in 1..Len(e.acts)} : e \in P}

\* operator+=: __policies__[s_t.first][a_t.first] = a_t.second for each pair
\* of arg (the USING_BOOST_SERIALIZATION branch; the other one subscripts the
\* map with the pair s_t itself and does not compile)
RECURSIVE MergeAll(_, _)
MergeAll(Ps, todo) ==
    IF todo = {} THEN Ps
    ELSE LET t == CHOOSE t \in todo : TRUE
         IN  MergeAll(UNION {UpdateResults(P, t.state, t.action, t.value) :
                                 P \in Ps},
                      todo \ {t})

RECURSIVE MergeAllAdd(_, _)
MergeAllAdd(Ps, todo) ==
    IF todo = {} THEN Ps
    ELSE LET t == CHOOSE t \in todo : TRUE
         IN  MergeAllAdd(UNION {{Assign(P1, t.state, t.action,
                                        Add(Get(P1, t.state, t.action), t.value)) :
                                    P1 \in Subscript(P, t.state, t.action)} :
                                P \in Ps},
                         todo \ {t})

MergeResultsAdd(L, R) == MergeAllAdd({L}, Triples(R))

MergeResultsMut(L, R) ==
    MergeAll({L}, {t \in Triples(R) : ~HasAction(Inner(L, t.state), t.action)})

MergeResults(L, R) == MergeAll({L}, Triples(R))

----------------------------------------------------------------------------
(* The driver's calls on the stores *)

Call(op, s, a, v, m) ==
    [op |-> op, state |-> s, action |-> a, value |-> v, map |-> m]

NoCall == Call("none", State(Zero, 1), nullptr, NaN, {})

\* history of update: the pair (trait, action) now holds q
Record(U, s, a, q) ==
    {u \in U : ~(u[1] = s.trait /\ u[2] = a)} \cup {<<s.trait, a, q>>}

Recorded(U, s, a) == \E u \in U : u[1] = s.trait /\ u[2] = a

Init ==
    /\ memory = {}
    /\ rhs = {}
    /\ updated = [lhs |-> {}, rhs |-> {}]
    /\ last = NoCall
    /\ ops = 0
    /\ rops = 0
    /\ calls = 0
    /\ pc = "idle"
    /\ episode = <<>>
    /\ index = 0
    /\ alpha = Zero
    /\ gamma = Zero
    /\ locals = [q |-> Zero, q_next |-> Zero, r |-> Zero, prob |-> Zero,
                 count |-> 0, total |-> 0]
    /\ freq = {}
    /\ pre = [memory |-> {}, freq |-> {}]

Update(s, a, q) ==
    /\ pc = "idle"
    /\ ops < MaxOps
    /\ \E P \in UpdateResults(memory, s, a, q) : memory' = P
    /\ updated' = [updated EXCEPT !.lhs = Record(@, s, a, q)]
    /\ last' = Call("update", s, a, q, {})
    /\ ops' = ops + 1
    /\ UNCHANGED <<rhs, rops, calls, learnerVars>>

UpdateRhs(s, a, q) ==
    /\ pc = "idle"
    /\ rops < MaxRhsOps
    /\ \E P \in UpdateResults(rhs, s, a, q) : rhs' = P
    /\ updated' = [updated EXCEPT !.rhs = Record(@, s, a, q)]
    /\ last' = Call("update_rhs", s, a, q, {})
    /\ rops' = rops + 1
    /\ UNCHANGED <<memory, ops, calls, learnerVars>>

Value(s, a) ==
    /\ pc = "idle"
    /\ ops < MaxOps
    /\ \E res \in ValueResults(memory, s, a) :
          /\ memory' = res.store
          /\ last' = Call("value", s, a, res.ret, {})
    /\ ops' = ops + 1
    /\ UNCHANGED <<rhs, rops, updated, calls, learnerVars>>

ActionsCall(s) ==
    /\ pc = "idle"
    /\ ops < MaxOps
    /\ memory' = IndexState(memory, s)
    /\ last' = Call("actions", s, nullptr, NaN, ActionsResult(memory, s))
    /\ ops' = ops + 1
    /\ UNCHANGED <<rhs, rops, updated, calls, learnerVars>>

BestValueCall(s) ==
    /\ pc = "idle"
    /\ ops < MaxOps
    /\ memory' = IndexState(memory, s)
    /\ last' = Call("best_value", s, nullptr, BestValue(memory, s), {})
    /\ ops' = ops + 1
    /\ UNCHANGED <<rhs, rops, updated, calls, learnerVars>>

BestActionCall(s) ==
    /\ pc = "idle"
    /\ ops < MaxOps
    /\ memory' = IndexState(memory, s)
    /\ last' = Call("best_action", s, BestAction(memory, s), NaN, {})
    /\ ops' = ops + 1
    /\ UNCHANGED <<rhs, rops, updated, calls, learnerVars>>

BestCall(s) ==
    /\ pc = "idle"
    /\ ops < MaxOps
    /\ memory' = IndexState(memory, s)
    /\ last' = Call("best", s, Best(memory, s)[1], Best(memory, s)[2], {})
    /\ ops' = ops + 1
    /\ UNCHANGED <<rhs, rops, updated, calls, learnerVars>>

RECURSIVE RecordAll(_, _)
RecordAll(U, todo) ==
    IF todo = {} THEN U
    ELSE LET t == CHOOSE t \in todo : TRUE
         IN  RecordAll(Record(U, t.state, t.action, t.value), todo \ {t})

Merge ==
    /\ pc = "idle"
    /\ ops < MaxOps
    /\ \E P \in MergeResults(memory, rhs) : memory' = P
    /\ updated' = [updated EXCEPT !.lhs = RecordAll(@, Triples(rhs))]
    /\ last' = Call("merge", State(Zero, 1), nullptr, NaN, {})
    /\ ops' = ops + 1
    /\ pre' = [memory |-> memory, freq |-> freq]
    /\ UNCHANGED <<rhs, rops, calls, pc, episode, index, alpha, gamma, locals,
                   freq>>

\* the driver compares two links: x < y
LessCall(x, y) ==
    /\ pc = "idle"
    /\ ops < MaxOps
    /\ last' = [op |-> "link_less", x |-> x, y |-> y, ret |-> LinkLess(x, y)]
    /\ ops' = ops + 1
    /\ UNCHANGED <<memory, rhs, rops, updated, calls, learnerVars>>

\* the driver compares two links: x == y
EqCall(x, y) ==
    /\ pc = "idle"
    /\ ops < MaxOps
    /\ last' = [op |-> "link_equal", x |-> x, y |-> y, ret |-> LinkEq(x, y)]
    /\ ops' = ops + 1
    /\ UNCHANGED <<memory, rhs, rops, updated, calls, learnerVars>>

----------------------------------------------------------------------------
(* q_probabilistic::__memory__: state -> action -> next state -> count.     *)
(* The keys are compared by trait (state::operator==, state::hash).         *)

FreqHas(F, s, a, n) ==
    \E f \in F : f.state = s.trait /\ f.action = a /\ f.next = n.trait

\* __memory__[s][a][n]: a count of 0 is inserted when the key is absent
FreqSubscript(F, s, a, n) ==
    IF FreqHas(F, s, a, n) THEN F
    ELSE F \cup {[state |-> s.trait, action |-> a, next |-> n.trait, count |-> 0]}

FreqGet(F, s, a, n) ==
    (CHOOSE f \in F : f.state = s.trait /\ f.action = a /\ f.next = n.trait).count

\* __memory__[s][a].size()
FreqSize(F, s, a) ==
    Cardinality({f \in F : f.state = s.trait /\ f.action = a})

FreqIncrementMut(F, s, a, n) == F

FreqIncrementReset(F, s, a, n) ==
    {f \in F : ~(f.state = s.trait /\ f.action = a)}
    \cup {[state |-> s.trait, action |-> a, next |-> n.trait, count |-> 1]}

\* __memory__[s][a][n] =+ 1: the assignment of the value +1
FreqIncrement(F, s, a, n) ==
    {IF f.state = s.trait /\ f.action = a /\ f.next = n.trait
     THEN [f EXCEPT !.count = 1] ELSE f : f \in FreqSubscript(F, s, a, n)}

----------------------------------------------------------------------------
(* The learners.  C++ indexes the episode from 0, the sequence from 1.      *)

Alphas == {<<1, 2>>, One}
Gammas == {<<1, 2>>}

Episodes == UNION {[1..n -> Links] : n \in 0..MaxLen}

At(ep, i) == ep[i + 1]

Size(ep) == Len(ep)

\* SIZE_MAX, what episode.size() - 1 wraps to for an empty episode
Wrapped == 2147483647

\* episode.size() - 1 in unsigned arithmetic
SizeMinus1(ep) == IF Size(ep) = 0 THEN Wrapped ELSE Size(ep) - 1

InLoopMut(ep, i) == i <= SizeMinus1(ep)

InLoopShort(ep, i) == i < SizeMinus1(ep)

\* the loop condition i < episode.size()
InLoop(ep, i) == i < Size(ep)

HasNextMut(ep, i) == i < Size(ep)

\* index < episode.size() - 1
HasNext(ep, i) == i < SizeMinus1(ep)

\* i == episode.size() - 1
IsLast(ep, i) == i = SizeMinus1(ep)

\* the indices of the episode one iteration of a value loop reads
ValueReads(ep, i) == {i} \cup (IF HasNext(ep, i) THEN {i + 1} ELSE {})

\* the indices of the episode one iteration of the frequency loop reads
FreqReads(ep, i) == IF IsLast(ep, i) THEN {} ELSE {i, i + 1}

\* std::deque::operator[] beyond the end: undefined behaviour
OutOfRange(ep, reads) == \E j \in reads : ~(j < Size(ep))

\* if (std::isnan(q_next)) q_next = 0.
NormaliseMut(q_next) == q_next

Normalise(q_next) == IF IsNaN(q_next) THEN Zero ELSE q_next

TdValueMut(q, r, q_next, al, ga) == Add(q, Mul(al, Sub(r, q)))

TdValueNoSub(q, r, q_next, al, ga) == Add(q, Mul(al, Add(r, Mul(ga, q_next))))

\* q + alpha * (r + (gamma * q_next) - q)
TdValue(q, r, q_next, al, ga) ==
    Add(q, Mul(al, Sub(Add(r, Mul(ga, q_next)), q)))

QValueMut(P, ep, i, al, ga) ==
    LET step == At(ep, i)
    IN  IF HasNext(ep, i)
        THEN {LET q      == Get(P1, step.state, step.action)
                  next   == At(ep, i + 1)
                  q_next == BestValue(P1, next.state)
                  r      == step.state.reward
              IN  [store  |-> IndexState(P1, next.state),
                   state  |-> step.state,
                   action |-> step.action,
                   value  |-> TdValue(q, r, Normalise(q_next), al, ga),
                   locals |-> [q |-> q, q_next |-> Normalise(q_next),
                               r |-> r, prob |-> Zero, count |-> 0, total |-> 0]]
              : P1 \in Subscript(P, step.state, step.action)}
        ELSE {[store  |-> P,
               state  |-> step.state,
               action |-> step.action,
               value  |-> Mul(al, step.state.reward),
               locals |-> locals]}

\* q_learning::q_value: every outcome of the call, with the store it leaves
QValue(P, ep, i, al, ga) ==
    LET step == At(ep, i)
    IN  IF HasNext(ep, i)
        THEN {LET q      == Get(P1, step.state, step.action)
                  next   == At(ep, i + 1)
                  q_next == BestValue(P1, next.state)
                  r      == step.state.reward
              IN  [store  |-> IndexState(P1, next.state),
                   state  |-> step.state,
                   action |-> step.action,
                   value  |-> TdValue(q, r, Normalise(q_next), al, ga),
                   locals |-> [q |-> q, q_next |-> Normalise(q_next),
                               r |-> r, prob |-> Zero, count |-> 0, total |-> 0]]
              : P1 \in Subscript(P, step.state, step.action)}
        ELSE {[store  |-> P,
               state  |-> step.state,
               action |-> step.action,
               value  |-> step.state.reward,
               locals |-> locals]}

\* prob: __memory__[s][a][n] / __memory__[s][a].size(), both std::size_t, so
\* the quotient is truncated before it becomes a value_type
TransitionProb(F, s, a, n) ==
    IF FreqSize(F, s, a) = 0 THEN NaN
    ELSE Num(FreqGet(F, s, a, n) \div FreqSize(F, s, a))

\* r_expected + (gamma * (q_next * prob))
ExpectedValue(prob, r, q_next, ga) ==
    Add(Mul(prob, r), Mul(ga, Mul(q_next, prob)))

PValueMut(P, F, ep, i, ga) ==
    LET step == At(ep, i)
    IN  IF HasNext(ep, i)
        THEN LET next   == At(ep, i + 1)
                 q      == IF HasAction(Inner(P, step.state), step.action)
                           THEN Get(P, step.state, step.action) ELSE Zero
                 q_next == BestValue(P, next.state)
                 r      == step.state.reward
                 F1     == FreqSubscript(F, step.state, step.action, next.state)
                 count  == FreqGet(F1, step.state, step.action, next.state)
                 total  == FreqSize(F1, step.state, step.action)
                 prob   == TransitionProb(F1, step.state, step.action, next.state)
             IN  [store  |-> IndexState(P, next.state),
                  freq   |-> F1,
                  state  |-> step.state,
                  action |-> step.action,
                  value  |-> Add(q, ExpectedValue(prob, r, Normalise(q_next), ga)),
                  locals |-> [q |-> q, q_next |-> Normalise(q_next),
                              r |-> r, prob |-> prob,
                              count |-> count, total |-> total]]
        ELSE [store  |-> P,
              freq   |-> F,
              state  |-> step.state,
              action |-> step.action,
              value  |-> step.state.reward,
              locals |-> locals]

\* q_probabilistic::q_value
PValue(P, F, ep, i, ga) ==
    LET step == At(ep, i)
    IN  IF HasNext(ep, i)
        THEN LET next   == At(ep, i + 1)
                 q_next == BestValue(P, next.state)
                 r      == step.state.reward
                 F1     == FreqSubscript(F, step.state, step.action, next.state)
                 count  == FreqGet(F1, step.state, step.action, next.state)
                 total  == FreqSize(F1, step.state, step.action)
                 prob   == TransitionProb(F1, step.state, step.action, next.state)
             IN  [store  |-> IndexState(P, next.state),
                  freq   |-> F1,
                  state  |-> step.state,
                  action |-> step.action,
                  value  |-> ExpectedValue(prob, r, Normalise(q_next), ga),
                  locals |-> [q |-> Zero, q_next |-> Normalise(q_next),
                              r |-> r, prob |-> prob,
                              count |-> count, total |-> total]]
        ELSE [store  |-> P,
              freq   |-> F,
              state  |-> step.state,
              action |-> step.action,
              value  |-> step.state.reward,
              locals |-> locals]

NoArgs(op) == Call(op, State(Zero, 1), nullptr, NaN, {})

\* an access beyond the end of the episode ends the call in a fault
Fault ==
    /\ pc' = "fault"
    /\ UNCHANGED <<memory, rhs, updated, last, ops, rops, calls, episode,
                   index, alpha, gamma, locals, freq, pre>>

\* q_learning::operator(): the call, with a copy of the driver's episode
QCall ==
    /\ pc = "idle"
    /\ calls < MaxCalls
    /\ pc' = "q_learning"
    /\ index' = 0
    /\ calls' = calls + 1
    /\ pre' = [memory |-> memory, freq |-> freq]
    /\ last' = NoArgs("q_learning")
    /\ UNCHANGED <<memory, rhs, updated, ops, rops, episode, alpha, gamma,
                   locals, freq>>

\* one iteration of for (i = 0; i < episode.size(); i++) of q_learning
QStep ==
    /\ pc = "q_learning"
    /\ InLoop(episode, index)
    /\ IF OutOfRange(episode, ValueReads(episode, index))
       THEN Fault
       ELSE /\ \E t \in QValue(memory, episode, index, alpha, gamma) :
                  /\ \E P \in UpdateResults(t.store, t.state, t.action, t.value) :
                        memory' = P
                  /\ updated' = [updated EXCEPT
                                    !.lhs = Record(@, t.state, t.action, t.value)]
                  /\ locals' = t.locals
            /\ index' = index + 1
            /\ UNCHANGED <<rhs, last, ops, rops, calls, pc, episode, alpha,
                           gamma, freq, pre>>

QReturn ==
    /\ pc = "q_learning"
    /\ ~InLoop(episode, index)
    /\ pc' = "idle"
    /\ UNCHANGED <<memory, rhs, updated, last, ops, rops, calls, episode,
                   index, alpha, gamma, locals, freq, pre>>

\* q_probabilistic::operator(): the call, with a copy of the driver's episode
PCall ==
    /\ pc = "idle"
    /\ calls < MaxCalls
    /\ pc' = "frequency"
    /\ index' = 0
    /\ calls' = calls + 1
    /\ pre' = [memory |-> memory, freq |-> freq]
    /\ last' = NoArgs("q_probabilistic")
    /\ UNCHANGED <<memory, rhs, updated, ops, rops, episode, alpha, gamma,
                   locals, freq>>

\* one iteration of the first loop: the frequency of the transition
PFreqStep ==
    /\ pc = "frequency"
    /\ InLoop(episode, index)
    /\ IF OutOfRange(episode, FreqReads(episode, index))
       THEN Fault
       ELSE /\ freq' = IF IsLast(episode, index) THEN freq
                       ELSE FreqIncrement(freq, At(episode, index).state,
                                          At(episode, index).action,
                                          At(episode, index + 1).state)
            /\ index' = index + 1
            /\ UNCHANGED <<memory, rhs, updated, last, ops, rops, calls, pc,
                           episode, alpha, gamma, locals, pre>>

PFreqDoneMut ==
    /\ pc = "frequency"
    /\ index >= 1
    /\ pc' = "q_probabilistic"
    /\ index' = 0
    /\ UNCHANGED <<memory, rhs, updated, last, ops, rops, calls, episode,
                   alpha, gamma, locals, freq, pre>>

\* the first loop ends, the second starts at i = 0
PFreqDone ==
    /\ pc = "frequency"
    /\ ~InLoop(episode, index)
    /\ pc' = "q_probabilistic"
    /\ index' = 0
    /\ UNCHANGED <<memory, rhs, updated, last, ops, rops, calls, episode,
                   alpha, gamma, locals, freq, pre>>

\* one iteration of the second loop: q_value, then policy_map.update
PStep ==
    /\ pc = "q_probabilistic"
    /\ InLoop(episode, index)
    /\ IF OutOfRange(episode, ValueReads(episode, index))
       THEN Fault
       ELSE /\ LET t == PValue(memory, freq, episode, index, gamma)
               IN  /\ \E P \in UpdateResults(t.store, t.state, t.action, t.value) :
                         memory' = P
                   /\ updated' = [updated EXCEPT
                                     !.lhs = Record(@, t.state, t.action, t.value)]
                   /\ locals' = t.locals
                   /\ freq' = t.freq
            /\ index' = index + 1
            /\ UNCHANGED <<rhs, last, ops, rops, calls, pc, episode, alpha,
                           gamma, pre>>

PReturn ==
    /\ pc = "q_probabilistic"
    /\ ~InLoop(episode, index)
    /\ pc' = "idle"
    /\ UNCHANGED <<memory, rhs, updated, last, ops, rops, calls, episode,
                   index, alpha, gamma, locals, freq, pre>>

\* the driver starts a round with a new, empty episode
NewRound ==
    /\ pc = "idle"
    /\ episode # <<>>
    /\ episode' = <<>>
    /\ last' = NoArgs("new_round")
    /\ UNCHANGED <<memory, rhs, updated, ops, rops, calls, pc, index,
                   alpha, gamma, locals, freq, pre>>

\* the episodes of an experience set: (s1, a1), then one of two successor
\* states with a terminal reward
TerminalRewards == {Num(1), Num(4)}

Rounds ==
    {<<Link(State(Zero, 1), 1), Link(State(r, t), 1)>> :
        r \in TerminalRewards, t \in {2, 3}}

\* gamma = 0.9 of q_probabilistic() = default, or the discount of the ctor
Discounts == {<<9, 10>>, <<1, 2>>}

\* the driver builds the next episode of its experience set and calls the
\* probabilistic learner with it; last.rounds are the episodes given so far
PRound(ep) ==
    /\ pc = "idle"
    /\ calls < MaxCalls
    /\ episode' = ep
    /\ pc' = "frequency"
    /\ index' = 0
    /\ calls' = calls + 1
    /\ pre' = [memory |-> memory, freq |-> freq]
    /\ last' = [op |-> "q_probabilistic", rounds |-> Append(last.rounds, ep)]
    /\ UNCHANGED <<memory, rhs, updated, ops, rops, alpha, gamma, locals, freq>>

\* the episodes of tests/logic_test.cpp: up to TestLen links of pairwise
\* distinct states, the last one with the reward of the episode
MaxReplays == 3

TestLen == 3

TestRewards == {Num(1), Num(-1)}

TestRates == {<<9, 10>>, <<1, 2>>, One}

TestEpisodes ==
    UNION {{[i \in 1..n |-> Link(State(IF i = n THEN r ELSE Zero, i), acts[i])] :
               acts \in [1..n -> Actions], r \in TestRewards} :
           n \in 1..TestLen}

\* for (int k = 0; k < 10; k++) learner(episode, memory), learner a q_learning
QReplay ==
    /\ pc = "idle"
    /\ last.op \in {"none", "q_learning"}
    /\ calls < MaxReplays
    /\ pc' = "q_learning"
    /\ index' = 0
    /\ calls' = calls + 1
    /\ pre' = [memory |-> memory, freq |-> freq]
    /\ last' = NoArgs("q_learning")
    /\ UNCHANGED <<memory, rhs, updated, ops, rops, episode, alpha, gamma,
                   locals, freq>>

\* for (int k = 0; k < 10; k++) learner(episode, memory), learner a
\* q_probabilistic
PReplay ==
    /\ pc = "idle"
    /\ last.op \in {"none", "q_probabilistic"}
    /\ calls < MaxReplays
    /\ pc' = "frequency"
    /\ index' = 0
    /\ calls' = calls + 1
    /\ pre' = [memory |-> memory, freq |-> freq]
    /\ last' = NoArgs("q_probabilistic")
    /\ UNCHANGED <<memory, rhs, updated, ops, rops, episode, alpha, gamma,
                   locals, freq>>

\* the learning rates and discounts a driver may pass to a constructor
AnyRates == {Num(-1), <<1, 2>>, Num(2)}

\* q_learning<state,action>{al, ga}: aggregate initialisation
NewQLearning(al, ga) ==
    /\ pc = "idle"
    /\ last.op = "none"
    /\ alpha' = al
    /\ gamma' = ga
    /\ last' = NoArgs("new_q_learning")
    /\ UNCHANGED <<memory, rhs, updated, ops, rops, calls, pc, episode, index,
                   locals, freq, pre>>

\* q_probabilistic(discount): gamma(discount)
NewQProbabilistic(discount) ==
    /\ pc = "idle"
    /\ last.op = "none"
    /\ gamma' = discount
    /\ last' = NoArgs("new_q_probabilistic")
    /\ UNCHANGED <<memory, rhs, updated, ops, rops, calls, pc, episode, index,
                   alpha, locals, freq, pre>>

\* episodes of TestLen links in which states and pairs may repeat
LongEpisodes == [1..TestLen -> Links]

----------------------------------------------------------------------------
(* The policy store alone *)
Next ==
    \/ \E s \in Keys, a \in Actions, q \in Values : Update(s, a, q)
    \/ \E s \in Keys, a \in Actions : Value(s, a)
    \/ \E s \in Keys : ActionsCall(s)
    \/ \E s \in Keys : BestValueCall(s)
    \/ \E s \in Keys : BestActionCall(s)
    \/ \E s \in Keys : BestCall(s)

Spec == Init /\ [][Next]_vars

(* Two policy stores and operator+= *)
MergeNext ==
    \/ \E s \in DefaultStates, a \in Actions, q \in MergeValues : Update(s, a, q)
    \/ \E s \in DefaultStates, a \in Actions, q \in MergeValues : UpdateRhs(s, a, q)
    \/ Merge

MergeSpec == Init /\ [][MergeNext]_vars

(* Two policy stores filled with the same pairs in different orders: the   *)
(* driver of memory records new actions of a state in increasing order,    *)
(* the driver of rhs in decreasing order.                                  *)
TieNext ==
    \/ \E s \in DefaultStates, a \in Actions, q \in MergeValues :
          /\ \A k \in 1..Len(Inner(memory, s)) : Inner(memory, s)[k].action <= a
          /\ Update(s, a, q)
    \/ \E s \in DefaultStates, a \in Actions, q \in MergeValues :
          /\ \A k \in 1..Len(Inner(rhs, s)) : Inner(rhs, s)[k].action >= a
          /\ UpdateRhs(s, a, q)

TieSpec == Init /\ [][TieNext]_vars

(* The comparisons of links *)
LinkNext ==
    \/ \E x \in Links, y \in Links : LessCall(x, y)
    \/ \E x \in Links, y \in Links : EqCall(x, y)

LinkSpec == Init /\ [][LinkNext]_vars

(* A policy store trained by the two learners.  The driver builds one     *)
(* episode and constructs the learners with one learning rate and discount, *)
(* then calls them any number of times on that episode.                     *)
LearnInit ==
    /\ memory = {}
    /\ rhs = {}
    /\ updated = [lhs |-> {}, rhs |-> {}]
    /\ last = NoCall
    /\ ops = 0
    /\ rops = 0
    /\ calls = 0
    /\ pc = "idle"
    /\ episode \in Episodes
    /\ index = 0
    /\ alpha \in Alphas
    /\ gamma \in Gammas
    /\ locals = [q |-> Zero, q_next |-> Zero, r |-> Zero, prob |-> Zero,
                 count |-> 0, total |-> 0]
    /\ freq = {}
    /\ pre = [memory |-> {}, freq |-> {}]

LearnNext ==
    \/ \E s \in DefaultStates, a \in Actions, q \in SetupValues :
          calls = 0 /\ ops < MaxSetup /\ Update(s, a, q)
    \/ QCall
    \/ QStep
    \/ QReturn
    \/ PCall
    \/ PFreqStep
    \/ PFreqDone
    \/ PStep
    \/ PReturn
    \/ NewRound

LearnSpec == LearnInit /\ [][LearnNext]_vars

(* One probabilistic learner and an empty store: the driver processes an  *)
(* experience set of episodes that share their first link.                 *)
ProbInit ==
    /\ memory = {}
    /\ rhs = {}
    /\ updated = [lhs |-> {}, rhs |-> {}]
    /\ last = [op |-> "none", rounds |-> <<>>]
    /\ ops = 0
    /\ rops = 0
    /\ calls = 0
    /\ pc = "idle"
    /\ episode = <<>>
    /\ index = 0
    /\ alpha = Zero
    /\ gamma \in Discounts
    /\ locals = [q |-> Zero, q_next |-> Zero, r |-> Zero, prob |-> Zero,
                 count |-> 0, total |-> 0]
    /\ freq = {}
    /\ pre = [memory |-> {}, freq |-> {}]

ProbNext ==
    \/ \E ep \in Rounds : PRound(ep)
    \/ PFreqStep
    \/ PFreqDone
    \/ PStep
    \/ PReturn

ProbSpec == ProbInit /\ [][ProbNext]_vars

(* The scenarios of tests/logic_test.cpp: an empty store, one episode and  *)
(* one learner that is called on it again and again.                       *)
ReplayInit ==
    /\ memory = {}
    /\ rhs = {}
    /\ updated = [lhs |-> {}, rhs |-> {}]
    /\ last = NoCall
    /\ ops = 0
    /\ rops = 0
    /\ calls = 0
    /\ pc = "idle"
    /\ episode \in TestEpisodes
    /\ index = 0
    /\ alpha \in TestRates
    /\ gamma \in TestRates
    /\ locals = [q |-> Zero, q_next |-> Zero, r |-> Zero, prob |-> Zero,
                 count |-> 0, total |-> 0]
    /\ freq = {}
    /\ pre = [memory |-> {}, freq |-> {}]

ReplayNext ==
    \/ QReplay
    \/ QStep
    \/ QReturn
    \/ PReplay
    \/ PFreqStep
    \/ PFreqDone
    \/ PStep
    \/ PReturn

ReplaySpec == ReplayInit /\ [][ReplayNext]_vars

(* The construction of a learner with any parameters, and its calls on an  *)
(* episode; alpha and gamma start with the defaults of the structs.        *)
CtorInit ==
    /\ memory = {}
    /\ rhs = {}
    /\ updated = [lhs |-> {}, rhs |-> {}]
    /\ last = NoCall
    /\ ops = 0
    /\ rops = 0
    /\ calls = 0
    /\ pc = "idle"
    /\ episode \in TestEpisodes
    /\ index = 0
    /\ alpha = <<9, 10>>
    /\ gamma = <<9, 10>>
    /\ locals = [q |-> Zero, q_next |-> Zero, r |-> Zero, prob |-> Zero,
                 count |-> 0, total |-> 0]
    /\ freq = {}
    /\ pre = [memory |-> {}, freq |-> {}]

CtorNext ==
    \/ \E al \in AnyRates, ga \in AnyRates : NewQLearning(al, ga)
    \/ \E discount \in AnyRates : NewQProbabilistic(discount)
    \/ last.op \in {"new_q_learning", "q_learning"} /\ QCall
    \/ QStep
    \/ QReturn
    \/ last.op \in {"new_q_probabilistic", "q_probabilistic"} /\ PCall
    \/ PFreqStep
    \/ PFreqDone
    \/ PStep
    \/ PReturn

CtorSpec == CtorInit /\ [][CtorNext]_vars

(* The probabilistic learner called on one episode of three links, whose  *)
(* states and pairs may repeat.                                            *)
PhaseInit ==
    /\ memory = {}
    /\ rhs = {}
    /\ updated = [lhs |-> {}, rhs |-> {}]
    /\ last = NoCall
    /\ ops = 0
    /\ rops = 0
    /\ calls = 0
    /\ pc = "idle"
    /\ episode \in LongEpisodes
    /\ index = 0
    /\ alpha = Zero
    /\ gamma \in Gammas
    /\ locals = [q |-> Zero, q_next |-> Zero, r |-> Zero, prob |-> Zero,
                 count |-> 0, total |-> 0]
    /\ freq = {}
    /\ pre = [memory |-> {}, freq |-> {}]

PhaseNext ==
    \/ PCall
    \/ PFreqStep
    \/ PFreqDone
    \/ PStep
    \/ PReturn

PhaseSpec == PhaseInit /\ [][PhaseNext]_vars

----------------------------------------------------------------------------
(* What the claims speak of *)

\* the pair (s, a) has an entry in the store
Present(P, s, a) == HasAction(Inner(P, s), a)

\* the value of a pair that has an entry
Stored(P, s, a) == Get(P, s, a)

\* the count of a transition, 0 when it was never observed
FreqCount(F, s, a, n) ==
    IF FreqHas(F, s, a, n) THEN FreqGet(F, s, a, n) ELSE 0

\* the sum of the counts over all destinations recorded for (s, a)
RECURSIVE FreqSumOf(_)
FreqSumOf(fs) ==
    IF fs = {} THEN 0
    ELSE LET f == CHOOSE f \in fs : TRUE
         IN  f.count + FreqSumOf(fs \ {f})

FreqSum(F, s, a) == FreqSumOf({f \in F : f.state = s.trait /\ f.action = a})

\* the probabilities, as the learner computes them, of the destinations fs
RECURSIVE SumOfProbs(_, _, _, _)
SumOfProbs(F, s, a, fs) ==
    IF fs = {} THEN Zero
    ELSE LET f == CHOOSE f \in fs : TRUE
         IN  Add(TransitionProb(F, s, a, State(Zero, f.next)),
                 SumOfProbs(F, s, a, fs \ {f}))

\* alpha in (0, 1]
ValidAlpha(al) == Less(Zero, al) /\ Geq(One, al)

\* gamma in [0, 1]
ValidGamma(ga) == Geq(ga, Zero) /\ Geq(One, ga)

\* the link of ep at index i is the pair (s, a)
IsPair(ep, i, s, a) ==
    StateEq(At(ep, i).state, s) /\ ActionEq(At(ep, i).action, a)

\* the destinations of (s, a) recorded in F or entered from it anywhere in ep
Destinations(F, ep, s, a) ==
    {f.next : f \in {g \in F : g.state = s.trait /\ g.action = a}}
    \cup {At(ep, j + 1).state.trait :
             j \in {k \in 0..(Size(ep) - 2) : IsPair(ep, k, s, a)}}

\* the value of link i (from 1) of ep at the fixed point of the rule with
\* alpha = 1: the reward the step reads plus the discounted value of the next
RECURSIVE FixedValue(_, _, _)
FixedValue(ep, i, ga) ==
    IF i = Len(ep) THEN ep[i].state.reward
    ELSE Add(ep[i].state.reward, Mul(ga, FixedValue(ep, i + 1, ga)))

\* the lexicographic order over (action, state)
Lexicographic(x, y) ==
    \/ x.action < y.action
    \/ x.action = y.action /\ x.state.trait < y.state.trait

\* the number of non-terminal indices of ep that hold the transition
Occurrences(ep, s, a, n) ==
    Cardinality({i \in 0..(Size(ep) - 2) :
                    /\ StateEq(At(ep, i).state, s)
                    /\ ActionEq(At(ep, i).action, a)
                    /\ StateEq(At(ep, i + 1).state, n)})

\* the value update last gave the pair
RecordedValue(U, s, a) ==
    (CHOOSE u \in U : u[1] = s.trait /\ u[2] = a)[3]

\* some action of s was passed to update
Known(U, s) == \E u \in U : u[1] = s.trait

NoNaN(P) == \A t \in Triples(P) : ~IsNaN(t.value)

----------------------------------------------------------------------------
(* C1: value(s, a) of a pair never passed to update returns 0 and changes  *)
(* nothing that actions(s') returns afterwards, for any state s'.          *)
C1_SoftRead ==
    [][(ops' = ops + 1 /\ last'.op = "value"
        /\ ~Recorded(updated.lhs, last'.state, last'.action))
       => /\ last'.value = Zero
          /\ \A s \in Keys : ActionsResult(memory', s) = ActionsResult(memory, s)
      ]_vars

(* C2: a state never passed to update has no best action (nullptr) and the *)
(* best value NaN, whatever store calls were made, value reads included.   *)
C2_NoKnowledge ==
    \A s \in Keys :
        ~Known(updated.lhs, s)
        => /\ BestAction(memory, s) = nullptr
           /\ IsNaN(BestValue(memory, s))

(* C3: value(s, a) returns the value of the most recent update(s, a, _),   *)
(* whatever updates of other pairs were made since.                        *)
C3_UpdateRoundTrip ==
    /\ \A s \in Keys, a \in Actions :
          Recorded(updated.lhs, s, a)
          => \A res \in ValueResults(memory, s, a) :
                res.ret = RecordedValue(updated.lhs, s, a)
    /\ (last.op = "value" /\ Recorded(updated.lhs, last.state, last.action))
       => last.value = RecordedValue(updated.lhs, last.state, last.action)

\* value(s, a) was called after an update of the pair and of another pair
C3_Witness ==
    /\ last.op = "value"
    /\ Recorded(updated.lhs, last.state, last.action)
    /\ last.value = Num(-2)
    /\ Cardinality(updated.lhs) >= 2

(* C4: for a state with a recorded action, best_value(s) is the value of   *)
(* best_action(s) and is at least the value of every recorded action.      *)
C4_BestConsistent ==
    \A s \in Keys :
        Inner(memory, s) # <<>>
        => /\ \A res \in ValueResults(memory, s, BestAction(memory, s)) :
                 res.ret = BestValue(memory, s)
           /\ \A a \in Actions :
                 Present(memory, s, a)
                 => Geq(BestValue(memory, s), Stored(memory, s, a))

\* a state whose two recorded values are negative and differ
C4_Witness ==
    \E s \in Keys :
        /\ Present(memory, s, 1)
        /\ Present(memory, s, 2)
        /\ Stored(memory, s, 1) = Num(-2)
        /\ Stored(memory, s, 2) = Num(-1)
        /\ BestAction(memory, s) = 2

C6_MergePrecedence ==
    last.op = "merge"
    => \A s \in DefaultStates, a \in Actions :
          /\ Present(rhs, s, a)
             => /\ Present(memory, s, a)
                /\ Stored(memory, s, a) = Stored(rhs, s, a)
          /\ (Present(pre.memory, s, a) /\ ~Present(rhs, s, a))
             => /\ Present(memory, s, a)
                /\ Stored(memory, s, a) = Stored(pre.memory, s, a)
          /\ (~Present(pre.memory, s, a) /\ ~Present(rhs, s, a))
             => ~Present(memory, s, a)

\* a merge where a pair of both stores had two values and L had a pair alone
C6_Witness ==
    /\ last.op = "merge"
    /\ \E s \in DefaultStates, a \in Actions :
          /\ Present(pre.memory, s, a)
          /\ Present(rhs, s, a)
          /\ Stored(pre.memory, s, a) # Stored(rhs, s, a)
    /\ \E s \in DefaultStates, a \in Actions :
          Present(pre.memory, s, a) /\ ~Present(rhs, s, a)
    /\ \E s \in DefaultStates, a \in Actions :
          ~Present(pre.memory, s, a) /\ Present(rhs, s, a)

(* C7: at a non-terminal index i the reward used by the deterministic      *)
(* learner is the reward of episode[i+1].state, the state entered.         *)
C7_RewardOfEnteredState ==
    (pc = "q_learning" /\ index >= 1 /\ HasNext(episode, index - 1))
    => locals.r = At(episode, index).state.reward

(* C8: at a non-terminal index i the deterministic learner writes          *)
(* q_old + alpha * (r + gamma * q_next - q_old), with q_old the value of   *)
(* the pair before the step (0 if absent), q_next the maximum over the     *)
(* actions recorded for episode[i+1].state before the step (0 if none) and *)
(* r the reward the step read.                                             *)
C8_UpdateRule ==
    [][(pc = "q_learning" /\ index' = index + 1 /\ HasNext(episode, index))
       => LET step   == At(episode, index)
              next   == At(episode, index + 1)
              q_old  == IF Present(memory, step.state, step.action)
                        THEN Stored(memory, step.state, step.action)
                        ELSE Zero
              q_next == IF Inner(memory, next.state) = <<>>
                        THEN Zero
                        ELSE BestValue(memory, next.state)
          IN  Stored(memory', step.state, step.action)
                 = TdValue(q_old, locals'.r, q_next, alpha, gamma)
      ]_vars

(* C9: in both learners a successor state without a recorded action gives  *)
(* q_next = 0, and no learner step writes NaN into the store.              *)
C9_NaNNormalised ==
    [][(pc \in {"q_learning", "q_probabilistic"} /\ index' = index + 1)
       => /\ (HasNext(episode, index)
              /\ Inner(memory, At(episode, index + 1).state) = <<>>)
             => locals'.q_next = Zero
          /\ ~IsNaN(locals'.q_next)
          /\ NoNaN(memory')
      ]_vars

\* a step of the probabilistic learner whose successor has no recorded action
C9_Witness ==
    /\ pc = "q_probabilistic"
    /\ index >= 1
    /\ HasNext(episode, index - 1)
    /\ Inner(memory, At(episode, index).state) = <<>>
    /\ locals.q_next = Zero
    /\ Present(memory, At(episode, index - 1).state, At(episode, index - 1).action)

(* C10: a learner call with an empty episode ends without a fault and      *)
(* leaves the policy store and the frequency memory as they were.          *)
C10_EmptyEpisode ==
    (last.op \in {"q_learning", "q_probabilistic"} /\ episode = <<>>)
    => /\ pc # "fault"
       /\ index = 0
       /\ memory = pre.memory
       /\ freq = pre.freq

\* the probabilistic learner returned from a call with an empty episode,
\* with a store and a frequency memory that were not empty
C10_Witness ==
    /\ pc = "idle"
    /\ last.op = "q_probabilistic"
    /\ episode = <<>>
    /\ memory # {}
    /\ freq # {}

(* C11: once the frequency loop of a call of the probabilistic learner is  *)
(* done, the count of every transition (s, a, s') is its count before the  *)
(* call plus the number of non-terminal indices of the episode holding it. *)
C11_FrequencyCount ==
    (last.op = "q_probabilistic" /\ pc \in {"q_probabilistic", "idle"})
    => \A s \in DefaultStates, a \in Actions, n \in DefaultStates :
          FreqCount(freq, s, a, n)
             = FreqCount(pre.freq, s, a, n) + Occurrences(episode, s, a, n)

(* C12: at a non-terminal index the probability the probabilistic learner  *)
(* uses is the count of the transition divided by the sum of the counts of *)
(* all destinations of the pair, as a fraction in [0, 1], and the          *)
(* probabilities of all destinations of the pair sum to 1.                 *)
C12_TransitionProbability ==
    (pc = "q_probabilistic" /\ index >= 1 /\ HasNext(episode, index - 1))
    => LET step == At(episode, index - 1)
           next == At(episode, index)
           dest == {f \in freq : f.state = step.state.trait
                                 /\ f.action = step.action}
       IN  /\ locals.prob
                 = Norm(FreqCount(freq, step.state, step.action, next.state),
                        FreqSum(freq, step.state, step.action))
           /\ Geq(locals.prob, Zero)
           /\ Geq(One, locals.prob)
           /\ SumOfProbs(freq, step.state, step.action, dest) = One

(* C13: after one probabilistic learner processed, from an empty store,    *)
(* two episodes that start with the same link and continue to different    *)
(* successor states with different terminal rewards, the value of the      *)
(* shared pair lies strictly between the two terminal rewards.             *)
C13_FrequencyScenario ==
    (pc = "idle" /\ Len(last.rounds) = 2
     /\ ~StateEq(last.rounds[1][2].state, last.rounds[2][2].state)
     /\ last.rounds[1][2].state.reward # last.rounds[2][2].state.reward)
    => LET r1 == last.rounds[1][2].state.reward
           r2 == last.rounds[2][2].state.reward
           v  == Stored(memory, last.rounds[1][1].state, last.rounds[1][1].action)
       IN  \/ Less(r1, v) /\ Less(v, r2)
           \/ Less(r2, v) /\ Less(v, r1)

(* C14: states of equal descriptor address the same store entry whatever   *)
(* their rewards: value, best_action, best_value and actions give the same *)
(* results for them, and value(s', a) returns what update(s, a, v) stored  *)
(* when s and s' differ in their reward only.                              *)
C14_HashEquality ==
    /\ \A s \in Keys, t \in Keys :
          (s.trait = t.trait)
          => /\ BestAction(memory, s) = BestAction(memory, t)
             /\ BestValue(memory, s) = BestValue(memory, t)
             /\ ActionsResult(memory, s) = ActionsResult(memory, t)
             /\ \A a \in Actions :
                   {res.ret : res \in ValueResults(memory, s, a)}
                      = {res.ret : res \in ValueResults(memory, t, a)}
    /\ \A e \in memory, f \in memory : (e.state.trait = f.state.trait) => e = f
    /\ (last.op = "value" /\ Recorded(updated.lhs, last.state, last.action))
       => last.value = RecordedValue(updated.lhs, last.state, last.action)

\* value(s', a) returned the value stored under a state s of another reward
C14_Witness ==
    /\ last.op = "value"
    /\ Recorded(updated.lhs, last.state, last.action)
    /\ \E e \in memory : /\ e.state.trait = last.state.trait
                         /\ e.state.reward # last.state.reward
    /\ last.value = Num(1)

(* C15: from an empty store, after every call of a learner on an episode  *)
(* of pairwise distinct states with terminal reward +1, best_action(s_i)   *)
(* is a_i for every link (s_i, a_i) of the episode, the last one included. *)
C15_Replay ==
    (pc = "idle" /\ calls >= 1
     /\ episode[Len(episode)].state.reward = One)
    => \A i \in 1..Len(episode) :
          BestAction(memory, episode[i].state) = episode[i].action

\* the probabilistic learner was called MaxReplays times on a 3-step episode
C15_Witness ==
    /\ pc = "idle"
    /\ last.op = "q_probabilistic"
    /\ calls = MaxReplays
    /\ Len(episode) = TestLen
    /\ episode[TestLen].state.reward = One
    /\ \A i \in 1..TestLen : BestAction(memory, episode[i].state) = 2

(* C16: from an empty store, after k calls of the deterministic learner on *)
(* an episode of n pairwise distinct states with terminal reward -1, the   *)
(* values of the last min(k, n) links are recorded and strictly negative.  *)
C16_NegativePropagation ==
    (pc = "idle" /\ last.op = "q_learning"
     /\ episode[Len(episode)].state.reward = Num(-1))
    => \A i \in 1..Len(episode) :
          (i > Len(episode) - calls)
          => /\ Present(memory, episode[i].state, episode[i].action)
             /\ Less(Stored(memory, episode[i].state, episode[i].action), Zero)

\* three calls with alpha = gamma = 0.9 made the value of the first of
\* three links negative
C16_Witness ==
    /\ pc = "idle"
    /\ last.op = "q_learning"
    /\ calls = TestLen
    /\ Len(episode) = TestLen
    /\ alpha = <<9, 10>>
    /\ gamma = <<9, 10>>
    /\ Less(Stored(memory, episode[1].state, episode[1].action), Zero)
    /\ Less(Num(-1), Stored(memory, episode[1].state, episode[1].action))

(* C17: two links are equal iff their actions and their states are equal, *)
(* x < y is the lexicographic order over (action, state), and of two       *)
(* unequal links one is less than the other.                               *)
C17_LinkOrdering ==
    /\ last.op = "link_equal"
       => (last.ret <=> (/\ last.x.action = last.y.action
                         /\ last.x.state.trait = last.y.state.trait))
    /\ last.op = "link_less"
       => /\ last.ret <=> Lexicographic(last.x, last.y)
          /\ ~LinkEq(last.x, last.y)
             => (LinkLess(last.x, last.y) \/ LinkLess(last.y, last.x))

(* C18: for a state without recorded actions best(s) returns a null action *)
(* together with the value 0.                                              *)
C18_BestNone ==
    (last.op = "best" /\ Inner(memory, last.state) = <<>>)
    => /\ last.action = nullptr
       /\ last.value = Zero

(* C19: a learner with a learning rate outside (0, 1] or a discount outside *)
(* [0, 1] is rejected when it is constructed: no such learner exists, and  *)
(* none has modified the policy store.                                     *)
C19_FailFast ==
    /\ (last.op \in {"new_q_learning", "q_learning"} /\ memory # {})
       => (ValidAlpha(alpha) /\ ValidGamma(gamma))
    /\ (last.op \in {"new_q_probabilistic", "q_probabilistic"} /\ memory # {})
       => ValidGamma(gamma)

(* C20: no learner reads the episode at an index j >= n: every index read  *)
(* by an iteration of the frequency loop or of a value loop is below n,    *)
(* and the successor i + 1 is read only for i < n - 1.                     *)
C20_NoOutOfBounds ==
    /\ pc # "fault"
    /\ (pc \in {"q_learning", "q_probabilistic"} /\ InLoop(episode, index))
       => /\ \A j \in ValueReads(episode, index) : j < Len(episode)
          /\ (index + 1) \in ValueReads(episode, index)
             => index < Len(episode) - 1
    /\ (pc = "frequency" /\ InLoop(episode, index))
       => /\ \A j \in FreqReads(episode, index) : j < Len(episode)
          /\ (index + 1) \in FreqReads(episode, index)
             => index < Len(episode) - 1

\* both loops of the probabilistic learner ran over an episode of one link
C20_Witness ==
    /\ pc = "idle"
    /\ last.op = "q_probabilistic"
    /\ Len(episode) = 1
    /\ index = 1
    /\ Present(memory, episode[1].state, episode[1].action)

(* C21: the value the probabilistic learner writes for (s_i, a_i) at a     *)
(* non-terminal index with s_{i+1} different from s_i is the same from any *)
(* store that differs from the current one only in the old value of the    *)
(* pair, the frequency memory being equal.                                 *)
C21_OverwriteNotBlend ==
    (/\ pc = "q_probabilistic"
     /\ InLoop(episode, index)
     /\ HasNext(episode, index)
     /\ ~StateEq(At(episode, index + 1).state, At(episode, index).state))
    => \A v \in Values :
          \A P2 \in UpdateResults(memory, At(episode, index).state,
                                   At(episode, index).action, v) :
             PValue(P2, freq, episode, index, gamma).value
                = PValue(memory, freq, episode, index, gamma).value

\* a value update replaced a value of the pair that was not 0 by another one
C21_Witness ==
    /\ pc = "q_probabilistic"
    /\ index = 1
    /\ ~StateEq(At(episode, 1).state, At(episode, 0).state)
    /\ Present(pre.memory, At(episode, 0).state, At(episode, 0).action)
    /\ Stored(pre.memory, At(episode, 0).state, At(episode, 0).action) # Zero
    /\ Stored(memory, At(episode, 0).state, At(episode, 0).action)
          # Stored(pre.memory, At(episode, 0).state, At(episode, 0).action)

(* C22: when the value update of the probabilistic learner reaches a       *)
(* non-terminal index i, the transition of that index is recorded and the  *)
(* denominator of its probability is at least 1.                           *)
C22_NoDivisionByZero ==
    /\ (pc = "q_probabilistic" /\ InLoop(episode, index)
        /\ HasNext(episode, index))
       => /\ FreqHas(freq, At(episode, index).state, At(episode, index).action,
                     At(episode, index + 1).state)
          /\ FreqSize(freq, At(episode, index).state,
                      At(episode, index).action) >= 1
    /\ (pc = "q_probabilistic" /\ index >= 1 /\ HasNext(episode, index - 1))
       => /\ locals.total >= 1
          /\ ~IsNaN(locals.prob)

\* the first value update of the first call divided by 1
C22_Witness ==
    /\ pc = "q_probabilistic"
    /\ calls = 1
    /\ index = 1
    /\ locals.count = 1
    /\ locals.total = 1
    /\ locals.prob = One

(* C24: in a call of the probabilistic learner no value is written while   *)
(* the frequency loop runs; when the value loop runs every transition of   *)
(* the episode is recorded, so the denominator used at index i counts the  *)
(* destinations entered at later indices; and the links at the indices not *)
(* yet reached hold what they held before the call, unless an earlier link *)
(* is the same pair.                                                       *)
C24_TwoPhases ==
    /\ pc = "frequency" => memory = pre.memory
    /\ pc = "q_probabilistic"
       => /\ \A i \in 0..(Size(episode) - 2) :
                FreqCount(freq, At(episode, i).state, At(episode, i).action,
                          At(episode, i + 1).state) >= 1
          /\ \A j \in index..(Size(episode) - 1) :
                (\A i \in 0..(index - 1) :
                    ~IsPair(episode, i, At(episode, j).state, At(episode, j).action))
                => LET s == At(episode, j).state
                       a == At(episode, j).action
                   IN  /\ Present(memory, s, a) <=> Present(pre.memory, s, a)
                       /\ Present(memory, s, a)
                          => Stored(memory, s, a) = Stored(pre.memory, s, a)
    /\ (pc = "q_probabilistic" /\ index >= 1 /\ HasNext(episode, index - 1))
       => locals.total
             = Cardinality(Destinations(pre.freq, episode,
                                        At(episode, index - 1).state,
                                        At(episode, index - 1).action))

\* the denominator at index 0 counted a destination entered at index 1
C24_Witness ==
    /\ pc = "q_probabilistic"
    /\ calls = 1
    /\ index = 1
    /\ IsPair(episode, 1, At(episode, 0).state, At(episode, 0).action)
    /\ ~StateEq(At(episode, 2).state, At(episode, 1).state)
    /\ locals.total = 2

(* C23: no step of a probabilistic learner removes a recorded transition   *)
(* from its frequency memory or lowers the count of one.                   *)
C23_FrequencyMonotone ==
    [][\A f \in freq :
          \E g \in freq' : /\ g.state = f.state
                           /\ g.action = f.action
                           /\ g.next = f.next
                           /\ g.count >= f.count
      ]_vars

\* two calls on one learner recorded two destinations of one pair
C23_Witness ==
    /\ pc = "idle"
    /\ calls = 2
    /\ Cardinality(freq) = 2
    /\ \A f \in freq : f.count = 1

(* C25: two stores that hold the same (state, action, value) triples,      *)
(* filled in different orders, return the same action from best_action(s)  *)
(* and the same pair from best(s), also when actions share the maximum.    *)
C25_TieBreak ==
    (Triples(memory) = Triples(rhs))
    => \A s \in DefaultStates :
          /\ BestAction(memory, s) = BestAction(rhs, s)
          /\ Best(memory, s) = Best(rhs, s)

(* C26: with alpha = 1, from an empty store and on an episode of n         *)
(* pairwise distinct states, the deterministic learner has reached the     *)
(* fixed point of its rule after n calls, and every further call leaves    *)
(* the store as it was.                                                    *)
C26_FixedPoint ==
    (pc = "idle" /\ last.op = "q_learning" /\ alpha = One)
    => /\ (calls >= Len(episode))
          => \A i \in 1..Len(episode) :
                /\ Present(memory, episode[i].state, episode[i].action)
                /\ Stored(memory, episode[i].state, episode[i].action)
                      = FixedValue(episode, i, gamma)
       /\ (calls > Len(episode)) => memory = pre.memory

\* the third call on three links still changed a value, and reached the
\* fixed point
C26_Witness ==
    /\ pc = "idle"
    /\ last.op = "q_learning"
    /\ alpha = One
    /\ gamma = <<1, 2>>
    /\ calls = TestLen
    /\ Len(episode) = TestLen
    /\ memory # pre.memory
    /\ Stored(memory, episode[1].state, episode[1].action) = <<1, 4>>

(* C27: after a call of either learner on an episode that is not empty,   *)
(* the pair of the last link holds exactly the reward of the last state,   *)
(* also when the pair occurs earlier in the episode.                       *)
C27_TerminalValue ==
    (pc = "idle" /\ last.op \in {"q_learning", "q_probabilistic"}
     /\ episode # <<>>)
    => LET term == episode[Len(episode)]
       IN  /\ Present(memory, term.state, term.action)
           /\ Stored(memory, term.state, term.action) = term.state.reward

\* the deterministic learner, alpha = 0.5, on two links of the same pair
C27_Witness ==
    /\ pc = "idle"
    /\ last.op = "q_learning"
    /\ alpha = <<1, 2>>
    /\ Len(episode) = 2
    /\ IsPair(episode, 0, episode[2].state, episode[2].action)
    /\ episode[2].state.reward = One
    /\ Stored(memory, episode[2].state, episode[2].action) = One

(* C28: during and after a call of either learner, every pair that is not  *)
(* a link of the episode is recorded iff it was before the call, with the  *)
(* same value, and a state that is not in the episode has the actions it   *)
(* had before the call.                                                    *)
C28_LearnerFrame ==
    (last.op \in {"q_learning", "q_probabilistic"})
    => \A s \in DefaultStates :
          /\ \A a \in Actions :
                (\A i \in 0..(Size(episode) - 1) : ~IsPair(episode, i, s, a))
                => /\ Present(memory, s, a) <=> Present(pre.memory, s, a)
                   /\ Present(memory, s, a)
                      => Stored(memory, s, a) = Stored(pre.memory, s, a)
          /\ (\A i \in 0..(Size(episode) - 1) : ~StateEq(At(episode, i).state, s))
             => AsMap(Inner(memory, s)) = AsMap(Inner(pre.memory, s))

\* a call wrote a pair of a state that held another pair, which it kept
C28_Witness ==
    /\ pc = "idle"
    /\ last.op = "q_learning"
    /\ Len(episode) = 2
    /\ memory # pre.memory
    /\ \E a \in Actions :
          /\ ~IsPair(episode, 0, episode[1].state, a)
          /\ ~IsPair(episode, 1, episode[1].state, a)
          /\ Present(pre.memory, episode[1].state, a)
          /\ Present(memory, episode[1].state, a)
          /\ Stored(memory, episode[1].state, a) = Num(-1)

(* C29: after L += R, applying L += R again changes nothing, R holds       *)
(* after the merges exactly what was written to it, and merging an empty R *)
(* leaves L as it was.                                                     *)
C29_MergeIdempotent ==
    /\ last.op = "merge"
       => /\ MergeResults(memory, rhs) = {memory}
          /\ (rhs = {}) => memory = pre.memory
    /\ MergeResults(memory, {}) = {memory}
    /\ \A s \in DefaultStates, a \in Actions :
          /\ Present(rhs, s, a) <=> Recorded(updated.rhs, s, a)
          /\ Present(rhs, s, a)
             => Stored(rhs, s, a) = RecordedValue(updated.rhs, s, a)

\* L += R was applied twice to an empty L and an R of two pairs
C29_Witness ==
    /\ last.op = "merge"
    /\ ops = 2
    /\ memory = pre.memory
    /\ Cardinality(Triples(rhs)) = 2
    /\ Triples(memory) = Triples(rhs)
    /\ \E t \in Triples(rhs) : t.value = One

====
